---- MODULE Spec2Model ----
(***************************************************************************)
(* Model of src/src/xbrhx909/command.py: the SonyXBRHX909 command codec    *)
(* (_chksum, _nsplit, the frame building half of _cmd) and the transaction *)
(* engine (the channel half of _cmd) over a serial channel.                *)
(*                                                                         *)
(* The module is Python 2 code (str channel data, a2b_hex raising          *)
(* TypeError) and is modelled with Python 2 behaviour.                     *)
(*                                                                         *)
(* Text (a Python str) is a sequence of one-character strings; a byte      *)
(* string on the channel is a sequence of integers 0..255.  A command      *)
(* field is a tagged value: an int, a str, or None.                        *)
(***************************************************************************)
EXTENDS Integers, Sequences, FiniteSets, TLC

\* ------------------------------------------------------------------ bounds

\* Most bytes the channel's input buffer holds in the model.
MaxInbuf == 6

\* Longest payload (command[2:]) the codec specification enumerates.
MaxPayload == 2

\* Longest sequence handed to _chksum on its own.
MaxChksum == 3

\* ------------------------------------------------------------ field values

IntF(n) == [t |-> "int", n |-> n]
StrF(s) == [t |-> "str", s |-> s]
None == [t |-> "none"]

\* Python truthiness of a field: None, 0 and '' are false.
Truthy(f) ==
    CASE f.t = "none" -> FALSE
      [] f.t = "int" -> f.n # 0
      [] f.t = "str" -> Len(f.s) > 0

LowerDigits == <<"0","1","2","3","4","5","6","7","8","9","a","b","c","d","e","f">>
UpperDigits == <<"0","1","2","3","4","5","6","7","8","9","A","B","C","D","E","F">>

IsHexChar(c) == \E i \in 1..16 : LowerDigits[i] = c \/ UpperDigits[i] = c
HexVal(c) == (CHOOSE i \in 1..16 : LowerDigits[i] = c \/ UpperDigits[i] = c) - 1

\* ------------------------------------------------------- Python built-ins

RECURSIVE HexDigitsOf(_)
HexDigitsOf(n) ==
    IF n < 16 THEN <<LowerDigits[n + 1]>>
    ELSE HexDigitsOf(n \div 16) \o <<LowerDigits[(n % 16) + 1]>>

\* hex(n): '0x..' for n >= 0 and '-0x..' for n < 0.
hex(n) == IF n < 0 THEN <<"-", "0", "x">> \o HexDigitsOf(-n)
          ELSE <<"0", "x">> \o HexDigitsOf(n)

Min(a, b) == IF a < b THEN a ELSE b

\* s[i:j] with 0-based i, j as in Python (j clipped to the length).
Slice(s, i, j) == SubSeq(s, i + 1, Min(j, Len(s)))
\* s[i:]
SliceFrom(s, i) == SubSeq(s, i + 1, Len(s))

RECURSIVE Zeros(_)
Zeros(k) == IF k <= 0 THEN <<>> ELSE <<"0">> \o Zeros(k - 1)

\* str.zfill(w): zeros go after a leading sign.
zfill(s, w) ==
    IF Len(s) >= w THEN s
    ELSE IF Len(s) > 0 /\ s[1] \in {"-", "+"}
         THEN <<s[1]>> \o Zeros(w - Len(s)) \o Tail(s)
         ELSE Zeros(w - Len(s)) \o s

\* int(s, 16) reads an optional sign, an optional 0x prefix and hex digits.
Unsigned(s) == IF Len(s) > 0 /\ s[1] \in {"-", "+"} THEN Tail(s) ELSE s
Unprefixed(s) ==
    IF Len(s) >= 2 /\ s[1] = "0" /\ s[2] \in {"x", "X"} THEN SliceFrom(s, 2) ELSE s
IntDigits(s) == Unprefixed(Unsigned(s))

\* int(s, 16) raises ValueError exactly when this is false.
IntParses(s) == Len(IntDigits(s)) > 0 /\ \A i \in 1..Len(IntDigits(s)) : IsHexChar(IntDigits(s)[i])

RECURSIVE DigitsValue(_)
DigitsValue(s) ==
    IF Len(s) = 0 THEN 0
    ELSE 16 * DigitsValue(SubSeq(s, 1, Len(s) - 1)) + HexVal(s[Len(s)])

int16(s) == IF Len(s) > 0 /\ s[1] = "-" THEN 0 - DigitsValue(IntDigits(s))
            ELSE DigitsValue(IntDigits(s))

RECURSIVE Sum(_)
Sum(q) == IF Len(q) = 0 THEN 0 ELSE q[1] + Sum(Tail(q))

RECURSIVE Join(_)
Join(q) == IF Len(q) = 0 THEN <<>> ELSE q[1] \o Join(Tail(q))

\* The text sent as it stands, one ASCII character per byte.
Ascii(c) ==
    IF \E i \in 1..10 : LowerDigits[i] = c THEN 48 + HexVal(c)
    ELSE IF \E i \in 11..16 : LowerDigits[i] = c THEN 87 + HexVal(c)
    ELSE 55 + HexVal(c)
hexencode_text(s) == [k \in 1..Len(s) |-> Ascii(s[k])]

\* binascii.a2b_hex (imported as hexencode): hex text to raw bytes.  It
\* raises TypeError for an odd-length string or a non-hexadecimal digit.
hexencodeOk(s) == Len(s) % 2 = 0 /\ \A i \in 1..Len(s) : IsHexChar(s[i])
hexencode(s) == [k \in 1..(Len(s) \div 2) |-> 16 * HexVal(s[2 * k - 1]) + HexVal(s[2 * k])]

\* binascii.b2a_hex (imported as hexdecode): raw bytes to lowercase hex text.
RECURSIVE hexdecode(_)
hexdecode(b) ==
    IF Len(b) = 0 THEN <<>>
    ELSE <<LowerDigits[(b[1] \div 16) + 1], LowerDigits[(b[1] % 16) + 1]>> \o hexdecode(Tail(b))

\* ------------------------------------------------------------------- state

VARIABLES
    self_byte0,             \* class attribute byte0 = '8C'
    self_byte1,             \* class attribute byte1 = '00'
    self_command_interval,  \* class attribute command_interval, in milliseconds
    pc,                     \* where the running _cmd call stands; "idle" between calls
    command,                \* argument of the current (or last) _cmd call
    byte0,                  \* argument byte0 (None when not given)
    byte1,                  \* argument byte1 (None when not given)
    enccmd,                 \* local enccmd: the raw bytes handed to write()
    response,               \* local response: what the reads returned
    dec_response,           \* local dec_response: hex text of the response, None until assigned
    outcome,                \* how the call ended: returned value or raised error
    ops,                    \* channel operations the current call has issued
    written,                \* bytes the current call has put on the channel
    inbuf,                  \* channel input buffer: bytes received and not yet read
    owedCur,                \* the device has not yet answered the current call's frame
    owedOld,                \* the device has not yet answered an earlier call's frame
    po_pc,                  \* where a power_off call stands; "none" outside power_off
    po_frames,              \* frames written to the channel by the current power_off call
    po_outcome,             \* how the power_off call ended
    chk_command,            \* argument of a direct _chksum call
    chk_result              \* what that _chksum call returned, None until it has

povars == <<po_pc, po_frames, po_outcome>>
chkvars == <<chk_command, chk_result>>

vars == <<self_byte0, self_byte1, self_command_interval, pc, command, byte0, byte1,
          enccmd, response, dec_response, outcome, ops, written, inbuf, owedCur, owedOld,
          po_pc, po_frames, po_outcome, chk_command, chk_result>>

\* command_interval = 0.15 seconds
CommandIntervalMs == 150

NoOutcome == [kind |-> "none", exc |-> "", value |-> <<>>]
Returned(v) == [kind |-> "return", exc |-> "", value |-> v]
Raised(e) == [kind |-> "raise", exc |-> e, value |-> <<>>]

\* ------------------------------------------------------------ _chksum

\* command = [int(c, 16) for c in command] raises ValueError unless this holds.
chksumParses(q) ==
    q[1].t = "str" => \A i \in 1..Len(q) : IntParses(q[i].s)

\* The sum returned without the reduction modulo 256.
binsum_unreduced(q) ==
    IF q[1].t = "str"
    THEN Sum([i \in 1..Len(q) |-> int16(q[i].s)])
    ELSE Sum([i \in 1..Len(q) |-> q[i].n])

binsum(q) ==
    LET total == IF q[1].t = "str"
                 THEN Sum([i \in 1..Len(q) |-> int16(q[i].s)])
                 ELSE Sum([i \in 1..Len(q) |-> q[i].n])
    IN  IF total > 255 THEN total % 256 ELSE total

chksum(q) ==
    IF q[1].t = "str"
    THEN StrF(zfill(Slice(hex(binsum(q)), 2, 4), 2))
    ELSE IntF(binsum(q))

\* ------------------------------------------------------------ _nsplit

\* Groups of one character (n = 1).
nsplit_single(strng) == [k \in 1..Len(strng) |-> <<strng[k]>>]

nsplit(strng) ==
    [k \in 1..((Len(strng) + 1) \div 2) |-> Slice(strng, 2 * (k - 1), 2 * (k - 1) + 2)]

\* ------------------------------------------- _cmd, lines 150-214: the frame

\* std_cmd after lines 151-159: left True only when byte0 and byte1 are both truthy.
std_cmd(b0, b1) == Truthy(b0) /\ Truthy(b1)

\* isinstance(x, int): hex(x)[2:].zfill(2); a str is kept as it is.
tohex(f) == IF f.t = "int" THEN zfill(SliceFrom(hex(f.n), 2), 2) ELSE f.s

header0(b0) == tohex(IF Truthy(b0) THEN b0 ELSE self_byte0)
header1(b1) == tohex(IF Truthy(b1) THEN b1 ELSE self_byte1)

code(c) == tohex(c[1])
length(c) == tohex(c[2])
required_length(c) == int16(length(c))

data(c) == [i \in 1..(Len(c) - 2) |-> tohex(c[i + 2])]
data_length(c) == Len(data(c)) + 1

\* ['00' for x in range(k)]: empty when k <= 0
zero_pad(k) == [i \in 1..(IF k > 0 THEN k ELSE 0) |-> <<"0", "0">>]

\* Padding applied whichever headers the call uses.
padded_data_always(c, b0, b1) ==
    IF data_length(c) # required_length(c)
    THEN zero_pad(required_length(c) - data_length(c)) \o data(c)
    ELSE data(c)

padded_data(c, b0, b1) ==
    IF std_cmd(b0, b1) /\ data_length(c) # required_length(c)
    THEN zero_pad(required_length(c) - data_length(c)) \o data(c)
    ELSE data(c)

\* cmd before the checksum is appended
cmd_fields(c, b0, b1) ==
    <<header0(b0), header1(b1), code(c), length(c)>> \o padded_data(c, b0, b1)

AsStr(q) == [i \in 1..Len(q) |-> StrF(q[i])]

checksum(c, b0, b1) == chksum(AsStr(cmd_fields(c, b0, b1))).s

\* cmd after cmd.append(checksum)
cmd(c, b0, b1) == Append(cmd_fields(c, b0, b1), checksum(c, b0, b1))

\* How lines 150-214 end: "ValueError" from int(.., 16) at line 179 or in
\* _chksum, "EncodeError" from line 214, or "ok" with enccmd built.
build_status(c, b0, b1) ==
    IF ~IntParses(length(c)) THEN "ValueError"
    ELSE IF ~chksumParses(AsStr(cmd_fields(c, b0, b1))) THEN "ValueError"
    ELSE IF ~hexencodeOk(Join(cmd(c, b0, b1))) THEN "EncodeError"
    ELSE "ok"

build_enccmd(c, b0, b1) == hexencode(Join(cmd(c, b0, b1)))

\* ------------------------------------------------------------ the channel

Bytes(q) == [i \in 1..Len(q) |-> q[i].b]
Tagged(chunk, stale) == [i \in 1..Len(chunk) |-> [b |-> chunk[i], stale |-> stale]]
AllStale(q) == [i \in 1..Len(q) |-> [b |-> q[i].b, stale |-> TRUE]]

\* serial read(n): the first n bytes of the input buffer, fewer when the
\* timeout ends the wait.
read_got(n) == SubSeq(inbuf, 1, Min(n, Len(inbuf)))
read_rest(n) == SubSeq(inbuf, Min(n, Len(inbuf)) + 1, Len(inbuf))

\* One channel operation: its name, the size passed, the bytes it returned.
WriteOp(b) == [op |-> "write", size |-> Len(b), got |-> 0]
FlushOp == [op |-> "flushOutput", size |-> 0, got |-> 0]
ReadOp(n, got) == [op |-> "read", size |-> n, got |-> Len(got)]

\* ------------------------------------------------------------------- Init

Init ==
    /\ self_byte0 = StrF(<<"8", "C">>)
    /\ self_byte1 = StrF(<<"0", "0">>)
    /\ self_command_interval = CommandIntervalMs
    /\ pc = "idle"
    /\ command = <<>>
    /\ byte0 = None
    /\ byte1 = None
    /\ enccmd = <<>>
    /\ response = <<>>
    /\ dec_response = None
    /\ outcome = NoOutcome
    /\ ops = <<>>
    /\ written = <<>>
    /\ inbuf = <<>>
    /\ owedCur = FALSE
    /\ owedOld = FALSE
    /\ po_pc = "none"
    /\ po_frames = <<>>
    /\ po_outcome = NoOutcome
    /\ chk_command = <<>>
    /\ chk_result = None

\* ------------------------------------------------------- _cmd, step by step

\* _cmd(c, b0, b1) is entered.  Whatever the channel holds at this moment
\* was sent for an earlier call.
Call(c, b0, b1) ==
    /\ pc = "idle"
    /\ command' = c
    /\ byte0' = b0
    /\ byte1' = b1
    /\ enccmd' = <<>>
    /\ response' = <<>>
    /\ dec_response' = None
    /\ outcome' = NoOutcome
    /\ ops' = <<>>
    /\ written' = <<>>
    /\ inbuf' = AllStale(inbuf)
    /\ owedOld' = (owedOld \/ owedCur)
    /\ owedCur' = FALSE
    /\ pc' = "build"
    /\ UNCHANGED chkvars
    /\ UNCHANGED <<self_byte0, self_byte1, self_command_interval>>

\* The frame text handed to the channel before it is encoded.
Build_write_first ==
    /\ pc = "build"
    /\ ops' = Append(ops, WriteOp(<<>>))
    /\ IF build_status(command, byte0, byte1) = "ok"
       THEN /\ enccmd' = build_enccmd(command, byte0, byte1)
            /\ outcome' = outcome
            /\ pc' = "write"
       ELSE /\ enccmd' = enccmd
            /\ outcome' = Raised(build_status(command, byte0, byte1))
            /\ pc' = "idle"
    /\ UNCHANGED povars
    /\ UNCHANGED chkvars
    /\ UNCHANGED <<self_byte0, self_byte1, self_command_interval, command, byte0, byte1,
                   response, dec_response, written, inbuf, owedCur, owedOld>>

\* The resolved header kept in the instance (self.byte0 = byte0).
Build_store_header ==
    /\ pc = "build"
    /\ self_byte0' = StrF(header0(byte0))
    /\ IF build_status(command, byte0, byte1) = "ok"
       THEN /\ enccmd' = build_enccmd(command, byte0, byte1)
            /\ outcome' = outcome
            /\ pc' = "write"
       ELSE /\ enccmd' = enccmd
            /\ outcome' = Raised(build_status(command, byte0, byte1))
            /\ pc' = "idle"
    /\ UNCHANGED povars
    /\ UNCHANGED chkvars
    /\ UNCHANGED <<self_byte1, self_command_interval, command, byte0, byte1,
                   response, dec_response, ops, written, inbuf, owedCur, owedOld>>

\* lines 151-214: the call either raises before touching the channel or
\* leaves enccmd ready to be written.
Build ==
    /\ pc = "build"
    /\ IF build_status(command, byte0, byte1) = "ok"
       THEN /\ enccmd' = build_enccmd(command, byte0, byte1)
            /\ outcome' = outcome
            /\ pc' = "write"
       ELSE /\ enccmd' = enccmd
            /\ outcome' = Raised(build_status(command, byte0, byte1))
            /\ pc' = "idle"
    /\ UNCHANGED povars
    /\ UNCHANGED chkvars
    /\ UNCHANGED <<self_byte0, self_byte1, self_command_interval, command, byte0, byte1,
                   response, dec_response, ops, written, inbuf, owedCur, owedOld>>

\* line 217: self.__conn.write(enccmd)
Write ==
    /\ pc = "write"
    /\ written' = written \o enccmd
    /\ ops' = Append(ops, WriteOp(enccmd))
    /\ owedCur' = TRUE
    /\ pc' = "flush"
    /\ po_frames' = IF po_pc \in {"standby", "off"} THEN Append(po_frames, enccmd) ELSE po_frames
    /\ UNCHANGED <<po_pc, po_outcome>>
    /\ UNCHANGED chkvars
    /\ UNCHANGED <<self_byte0, self_byte1, self_command_interval, command, byte0, byte1,
                   enccmd, response, dec_response, outcome, inbuf, owedOld>>

\* line 218: self.__conn.flushOutput()
Flush ==
    /\ pc = "flush"
    /\ ops' = Append(ops, FlushOp)
    /\ pc' = "read6"
    /\ UNCHANGED povars
    /\ UNCHANGED chkvars
    /\ UNCHANGED <<self_byte0, self_byte1, self_command_interval, command, byte0, byte1,
                   enccmd, response, dec_response, outcome, written, inbuf, owedCur, owedOld>>

\* A retry whenever the first read came back short of six bytes.
retry_read_short(r) == Len(r) < 6

\* line 225: if len(response) is 0
retry_read(r) == Len(r) = 0

\* line 222: response = self.__conn.read(6)
Read6 ==
    /\ pc = "read6"
    /\ response' = read_got(6)
    /\ inbuf' = read_rest(6)
    /\ ops' = Append(ops, ReadOp(6, read_got(6)))
    /\ pc' = IF retry_read(read_got(6)) THEN "read3" ELSE "parse"
    /\ UNCHANGED povars
    /\ UNCHANGED chkvars
    /\ UNCHANGED <<self_byte0, self_byte1, self_command_interval, command, byte0, byte1,
                   enccmd, dec_response, outcome, written, owedCur, owedOld>>

\* line 227: response = self.__conn.read(3)
Read3 ==
    /\ pc = "read3"
    /\ response' = read_got(3)
    /\ inbuf' = read_rest(3)
    /\ ops' = Append(ops, ReadOp(3, read_got(3)))
    /\ pc' = "parse"
    /\ UNCHANGED povars
    /\ UNCHANGED chkvars
    /\ UNCHANGED <<self_byte0, self_byte1, self_command_interval, command, byte0, byte1,
                   enccmd, dec_response, outcome, written, owedCur, owedOld>>

\* The zero-length check left out.
no_response_unchecked(r) == FALSE

\* line 231: if len(response) is 0: raise ResponseError
no_response(r) == Len(r) = 0

\* The response also refused when its last byte is not the sum of the others.
garbled_or_bad_checksum(dec) ==
    \/ Len(nsplit(dec)) < 2
    \/ hexencode(dec)[Len(hexencode(dec))] #
           Sum(SubSeq(hexencode(dec), 1, Len(hexencode(dec)) - 1)) % 256

\* lines 238-241: self._nsplit(dec_response)[1] raises IndexError when there
\* is no second group.
garbled(dec) == Len(nsplit(dec)) < 2
\* The header group taken for the response code.
response_code_header(dec) == nsplit(dec)[1]

response_code(dec) == nsplit(dec)[2]

\* Every code but 00 taken for an error.
classify_strict(rc) ==
    CASE rc = <<"0", "0">> -> Returned(rc)
      [] rc = <<"0", "1">> -> Raised("LimitOverError")
      [] rc = <<"0", "2">> -> Raised("LimitUnderError")
      [] rc = <<"0", "3">> -> Raised("CommandCancelled")
      [] OTHER -> Raised("ParseError")

\* lines 243-253
classify(rc) ==
    CASE rc = <<"0", "1">> -> Raised("LimitOverError")
      [] rc = <<"0", "2">> -> Raised("LimitUnderError")
      [] rc = <<"0", "3">> -> Raised("CommandCancelled")
      [] rc = <<"0", "4">> -> Raised("ParseError")
      [] OTHER -> Returned(rc)

\* lines 230-253: the rest of the call once the reads are done
Parse ==
    /\ pc = "parse"
    /\ IF no_response(response)
       THEN /\ dec_response' = dec_response
            /\ outcome' = Raised("ResponseError")
       ELSE /\ dec_response' = StrF(hexdecode(Bytes(response)))
            /\ outcome' = IF garbled(hexdecode(Bytes(response)))
                          THEN Raised("ResponseError")
                          ELSE classify(response_code(hexdecode(Bytes(response))))
    /\ pc' = "idle"
    /\ UNCHANGED povars
    /\ UNCHANGED chkvars
    /\ UNCHANGED <<self_byte0, self_byte1, self_command_interval, command, byte0, byte1,
                   enccmd, response, ops, written, inbuf, owedCur, owedOld>>

\* -------------------------------------------------------------- the device

\* The television answers the frame of the call in progress.
DeviceReply(chunk) ==
    /\ owedCur
    /\ Len(inbuf) + Len(chunk) <= MaxInbuf
    /\ inbuf' = inbuf \o Tagged(chunk, FALSE)
    /\ owedCur' = FALSE
    /\ UNCHANGED povars
    /\ UNCHANGED chkvars
    /\ UNCHANGED <<self_byte0, self_byte1, self_command_interval, pc, command, byte0, byte1,
                   enccmd, response, dec_response, outcome, ops, written, owedOld>>

\* The answer to an earlier call's frame arrives after that call has ended.
DeviceLateReply(chunk) ==
    /\ owedOld
    /\ Len(inbuf) + Len(chunk) <= MaxInbuf
    /\ inbuf' = inbuf \o Tagged(chunk, TRUE)
    /\ owedOld' = FALSE
    /\ UNCHANGED povars
    /\ UNCHANGED chkvars
    /\ UNCHANGED <<self_byte0, self_byte1, self_command_interval, pc, command, byte0, byte1,
                   enccmd, response, dec_response, outcome, ops, written, owedCur>>

\* ------------------------------------------------------------------ inputs

T2(a, b) == StrF(<<a, b>>)

\* Calls the transaction engine is driven with: power_on, _standby_command_on,
\* power_off's second frame, theater_toggle, color_temp('01'), and three
\* calls that fail while the frame is built.
EngineCalls ==
    { <<<<T2("0", "0"), T2("0", "2"), T2("0", "1")>>, None, None>>,
      <<<<T2("0", "1"), T2("0", "2"), T2("0", "1")>>, None, None>>,
      <<<<T2("0", "0"), T2("0", "2"), T2("0", "0")>>, None, None>>,
      <<<<IntF(3), T2("0", "0"), T2("0", "0")>>, T2("8", "1"), IntF(96)>>,
      <<<<T2("0", "4"), T2("0", "2"), T2("0", "1")>>, T2("8", "C"), T2("1", "0")>>,
      <<<<T2("0", "0"), T2("0", "2"), IntF(256)>>, None, None>>,
      <<<<T2("0", "0"), T2("0", "2"), StrF(<<"1">>)>>, None, None>>,
      <<<<T2("0", "0"), T2("0", "2"), T2("z", "z")>>, None, None>> }

\* What the television may send back for one frame: the nominal three-byte
\* answers for codes 00..05 and AB, answers with another header or checksum byte,
\* and truncated answers.
Responses ==
    { <<112, 0, 112>>, <<112, 1, 113>>, <<112, 2, 114>>, <<112, 3, 115>>,
      <<112, 4, 116>>, <<112, 5, 117>>, <<112, 171, 27>>, <<113, 0, 255>>,
      <<112, 1, 0>>, <<112>>, <<112, 0>>, <<112, 3>> }

\* Fields the codec specification builds commands from: two-hex-digit text in
\* either case, integers inside and outside 0..255, and text that is no byte.
PayloadFields ==
    { T2("0", "1"), T2("F", "f"), IntF(0), IntF(171), IntF(256), StrF(<<"1">>), T2("z", "z") }
Categories == { T2("0", "0"), IntF(3) }
Lengths == { T2("0", "2"), IntF(3), T2("0", "0"), T2("z", "z") }
Headers0 == { None, T2("8", "1"), IntF(0), IntF(96), IntF(256) }
Headers1 == { None, T2("1", "0"), IntF(0), IntF(96) }

RECURSIVE SeqsUpTo(_, _)
SeqsUpTo(S, n) ==
    IF n = 0 THEN {<<>>}
    ELSE SeqsUpTo(S, n - 1) \cup {Append(q, x) : q \in {r \in SeqsUpTo(S, n - 1) : Len(r) = n - 1}, x \in S}

Payloads == SeqsUpTo(PayloadFields, MaxPayload)

\* ------------------------------------------------------------ specifications

\* A caller other than power_off invokes _cmd.
CallEngine ==
    /\ po_pc \notin {"standby", "off"}
    /\ \E c \in EngineCalls : Call(c[1], c[2], c[3])
    /\ po_pc' = "none"
    /\ po_frames' = <<>>
    /\ po_outcome' = NoOutcome
Reply == \E r \in Responses : DeviceReply(r)
LateReply == \E r \in Responses : DeviceLateReply(r)

Next == CallEngine \/ Build \/ Write \/ Flush \/ Read6 \/ Read3 \/ Parse \/ Reply \/ LateReply

Spec == Init /\ [][Next]_vars

\* The codec on its own: one call on a new engine, its arguments drawn from
\* every combination of fields, against a television that stays silent.
InitCodec ==
    /\ self_byte0 = StrF(<<"8", "C">>)
    /\ self_byte1 = StrF(<<"0", "0">>)
    /\ self_command_interval = CommandIntervalMs
    /\ pc = "build"
    /\ \E cat \in Categories, len \in Lengths, p \in Payloads :
           command = <<cat, len>> \o p
    /\ byte0 \in Headers0
    /\ byte1 \in Headers1
    /\ enccmd = <<>>
    /\ response = <<>>
    /\ dec_response = None
    /\ outcome = NoOutcome
    /\ ops = <<>>
    /\ written = <<>>
    /\ inbuf = <<>>
    /\ owedCur = FALSE
    /\ owedOld = FALSE
    /\ po_pc = "none"
    /\ po_frames = <<>>
    /\ po_outcome = NoOutcome
    /\ chk_command = <<>>
    /\ chk_result = None

NextCodec == Build \/ Write \/ Flush \/ Read6 \/ Read3 \/ Parse

SpecCodec == InitCodec /\ [][NextCodec]_vars

\* ===================================================================
\* Properties
\* ===================================================================

\* The call in progress, or the last one, got past line 214.
FrameBuilt ==
    \/ pc \in {"write", "flush", "read6", "read3", "parse"}
    \/ pc = "idle" /\ outcome.kind # "none" /\ outcome.exc \notin {"ValueError", "EncodeError"}

\* The call has ended after its reads.
Ended == pc = "idle" /\ outcome.kind # "none" /\ outcome.exc \notin {"ValueError", "EncodeError"}

\* C1: when a call ends having read a response of at least two bytes, the
\* byte at index 1 decides the outcome: 00 returns '00', 01 raises
\* LimitOverError, 02 LimitUnderError, 03 CommandCancelled, 04 ParseError.
C1_ResponseCodeDecides ==
    (Ended /\ Len(response) >= 2) =>
        CASE response[2].b = 0 -> outcome = Returned(<<"0", "0">>)
          [] response[2].b = 1 -> outcome = Raised("LimitOverError")
          [] response[2].b = 2 -> outcome = Raised("LimitUnderError")
          [] response[2].b = 3 -> outcome = Raised("CommandCancelled")
          [] response[2].b = 4 -> outcome = Raised("ParseError")
          [] OTHER -> TRUE

C1_Witness ==
    /\ Ended
    /\ Len(response) = 3
    /\ response[2].b = 3
    /\ outcome = Raised("CommandCancelled")

\* C2: a call whose frame was built issues exactly write(frame), flushOutput,
\* read(6) and then read(3) if and only if read(6) returned nothing, in that
\* order; the frame is written once.
C2_ChannelOrder ==
    LET W == [op |-> "write", size |-> Len(enccmd), got |-> 0]
        F == [op |-> "flushOutput", size |-> 0, got |-> 0]
        R(n, k) == [op |-> "read", size |-> n, got |-> k]
    IN  FrameBuilt =>
            /\ pc = "write" => ops = <<>> /\ written = <<>>
            /\ pc # "write" => written = enccmd
            /\ pc = "flush" => ops = <<W>>
            /\ pc = "read6" => ops = <<W, F>>
            /\ pc = "read3" => ops = <<W, F, R(6, 0)>>
            /\ (pc = "parse" \/ Ended) =>
                   \/ \E k \in 1..6 : ops = <<W, F, R(6, k)>>
                   \/ \E j \in 0..3 : ops = <<W, F, R(6, 0), R(3, j)>>

C2_Witness ==
    /\ Ended
    /\ Len(ops) = 4
    /\ ops[4].got = 3
    /\ outcome.kind = "return"

\* C3: when read(6) and read(3) both return nothing the call raises
\* ResponseError, nothing is decoded, and the frame written stays written.
C3_EmptyResponse ==
    (Ended /\ Len(ops) = 4 /\ ops[3].got = 0 /\ ops[4].got = 0) =>
        /\ outcome = Raised("ResponseError")
        /\ dec_response = None
        /\ ops[1].op = "write"
        /\ Len(written) > 0
        /\ written = enccmd

C3_Witness ==
    /\ Ended
    /\ Len(ops) = 4
    /\ ops[3].got = 0
    /\ ops[4].got = 0
    /\ outcome = Raised("ResponseError")
    /\ Len(written) = 6

\* C4: the step in which a call raises EncodeError issues no channel
\* operation and leaves the channel as it was.
C4_EncodeErrorBeforeChannel ==
    [][(outcome' = Raised("EncodeError") /\ outcome # Raised("EncodeError")) =>
          /\ ops' = <<>>
          /\ written' = <<>>
          /\ inbuf' = inbuf
          /\ owedCur' = owedCur
          /\ owedOld' = owedOld
          /\ pc' = "idle"]_vars

C4_Witness ==
    /\ outcome = Raised("EncodeError")
    /\ ops = <<>>
    /\ Len(inbuf) > 0

\* ------------------------------------------------------- frames, by value

\* A field that is a byte: an integer in 0..255 or two hexadecimal digits.
IsByteField(f) ==
    \/ f.t = "int" /\ f.n \in 0..255
    \/ f.t = "str" /\ Len(f.s) = 2 /\ IsHexChar(f.s[1]) /\ IsHexChar(f.s[2])

ByteOf(f) == IF f.t = "int" THEN f.n ELSE 16 * HexVal(f.s[1]) + HexVal(f.s[2])

IsDescriptor(c) == \A i \in 1..Len(c) : IsByteField(c[i])

FieldBytes(c) == [i \in 1..Len(c) |-> ByteOf(c[i])]

\* header0, header1, the descriptor's bytes as supplied, and their sum mod 256
PlainFrame(h0, h1, c) ==
    <<h0, h1>> \o FieldBytes(c) \o <<(h0 + h1 + Sum(FieldBytes(c))) % 256>>

NoOverrides == byte0 = None /\ byte1 = None

\* The call in progress, or the last one, has executed the write.
Wrote == Len(ops) > 0

PowerOn == <<T2("0", "0"), T2("0", "2"), T2("0", "1")>>

C6_ChecksumIsSum ==
    Wrote => written[Len(written)] = Sum(SubSeq(written, 1, Len(written) - 1)) % 256

\* C7: a default-header command whose payload is shorter than declared is
\* left-padded with (declared - payload length - 1) bytes of 00, the frame
\* being 4 + declared length bytes long.
C7_DefaultHeaderPadding ==
    (Wrote /\ NoOverrides /\ IsDescriptor(command)
           /\ Len(command) - 2 + 1 < ByteOf(command[2])) =>
        LET declared == ByteOf(command[2])
            payload == SubSeq(FieldBytes(command), 3, Len(command))
            missing == declared - Len(payload) - 1
        IN  /\ Len(written) = 4 + declared
            /\ SubSeq(written, 5, 4 + missing) = [i \in 1..missing |-> 0]
            /\ SubSeq(written, 5 + missing, Len(written) - 1) = payload

\* C8: a command issued with a header override whose payload length + 1
\* differs from the declared length is not padded: the payload bytes written
\* are the supplied payload bytes.
C8_OverrideNoPadding ==
    (Wrote /\ ~NoOverrides /\ IsDescriptor(command)
           /\ (byte0 = None \/ IsByteField(byte0)) /\ (byte1 = None \/ IsByteField(byte1))
           /\ Len(command) - 2 + 1 # ByteOf(command[2])) =>
        SubSeq(written, 5, Len(written) - 1) = SubSeq(FieldBytes(command), 3, Len(command))

\* C9: a header override that is an integer in 0..255 or two-hex-digit text
\* is the header byte written; 8C and 00 are written only for an absent one.
C9_OverrideIsHeader ==
    (Wrote /\ IsDescriptor(command)
           /\ (byte0 = None \/ IsByteField(byte0)) /\ (byte1 = None \/ IsByteField(byte1))) =>
        /\ written[1] = IF byte0 = None THEN 140 ELSE ByteOf(byte0)
        /\ written[2] = IF byte1 = None THEN 0 ELSE ByteOf(byte1)

\* The value of a two-character hex group.
PairValue(g) == 16 * HexVal(g[1]) + HexVal(g[2])

ValidHeaders ==
    /\ byte0 = None \/ IsByteField(byte0)
    /\ byte1 = None \/ IsByteField(byte1)

\* C10 as stated: the bytes written are the frame as hex text, two per frame
\* byte, and the response read is three bytes in the same text form.
C10_WireIsHexText ==
    /\ (Wrote /\ NoOverrides /\ IsDescriptor(command)) =>
           Len(written) = 2 * Len(PlainFrame(140, 0, command))
    /\ dec_response # None => Len(nsplit(dec_response.s)) <= 3

\* C10, amended: the bytes written are the frame in binary, one per frame
\* byte (two hex characters of the frame text each); the response read is
\* at most 6 raw bytes, turned into hex text of two characters per byte.
C10_WireIsBinary ==
    /\ Wrote => 2 * Len(written) = Len(Join(cmd(command, byte0, byte1)))
    /\ (Wrote /\ IsDescriptor(command) /\ ValidHeaders) =>
           /\ Len(written) = Len(cmd(command, byte0, byte1))
           /\ \A i \in 1..Len(written) : written[i] = PairValue(cmd(command, byte0, byte1)[i])
    /\ dec_response # None =>
           /\ Len(response) \in 1..6
           /\ Len(dec_response.s) = 2 * Len(response)
           /\ \A i \in 1..Len(response) : PairValue(nsplit(dec_response.s)[i]) = response[i].b

C10_Witness ==
    /\ Ended
    /\ command = PowerOn
    /\ written = <<140, 0, 0, 2, 1, 143>>
    /\ Len(response) = 6
    /\ dec_response # None
    /\ Len(dec_response.s) = 12

\* The two lowercase hexadecimal digits of a byte.
TwoHex(b) == <<LowerDigits[(b \div 16) + 1], LowerDigits[(b % 16) + 1]>>

\* C11: a call whose non-empty response decodes to fewer than two groups
\* (no byte at the response-code position) raises ResponseError.
C11_ShortResponseIsGarbled ==
    (Ended /\ Len(response) > 0 /\ Len(response) < 2) =>
        /\ dec_response # None
        /\ outcome = Raised("ResponseError")

C11_Witness ==
    /\ Ended
    /\ Bytes(response) = <<112>>
    /\ dec_response = StrF(<<"7", "0">>)
    /\ outcome = Raised("ResponseError")

\* C12: a call raises ResponseError whenever what it received is not a
\* response of three fields; a response of another number of fields is never
\* classified as success or as a device-status error.
C12_ThreeFieldsOrResponseError ==
    (Ended /\ Len(response) # 3) => outcome = Raised("ResponseError")

\* C13: for every response code other than 00..04 the call raises nothing
\* and returns that code as two-hex-digit text.
C13_OtherCodesReturned ==
    (Ended /\ Len(response) >= 2 /\ response[2].b \notin 0..4) =>
        outcome = Returned(TwoHex(response[2].b))

C13_Witness ==
    /\ Ended
    /\ Bytes(response) = <<112, 171, 27>>
    /\ outcome = Returned(<<"a", "b">>)

\* C14: a call with a field that is no byte (non-hexadecimal text, an
\* integer outside 0..255) raises EncodeError, no other error, and builds no
\* frame.
C14_InvalidFieldIsEncodeError ==
    (pc # "build" /\ ~(IsDescriptor(command) /\ ValidHeaders)) =>
        /\ outcome = Raised("EncodeError")
        /\ enccmd = <<>>

\* What the response-code byte alone makes of a call.
OutcomeOfCode(b) ==
    CASE b = 1 -> Raised("LimitOverError")
      [] b = 2 -> Raised("LimitUnderError")
      [] b = 3 -> Raised("CommandCancelled")
      [] b = 4 -> Raised("ParseError")
      [] OTHER -> Returned(TwoHex(b))

\* C16: the outcome of a call is a function of the response-code byte alone;
\* the header byte and the checksum byte of the response have no part in it,
\* so two responses with the same code byte end in the same outcome.
C16_OutcomeIgnoresHeaderAndChecksum ==
    (Ended /\ Len(response) >= 2) => outcome = OutcomeOfCode(response[2].b)

\* A response with header 71 and a checksum byte that is not the sum is
\* taken like the nominal 70 00 70.
C16_Witness ==
    /\ Ended
    /\ Bytes(response) = <<113, 0, 255>>
    /\ outcome = Returned(<<"0", "0">>)

\* C17: no step of a call changes the default headers, command_interval or
\* the caller's command descriptor.
C17_EngineStateUnchanged ==
    /\ [](/\ self_byte0 = StrF(<<"8", "C">>)
          /\ self_byte1 = StrF(<<"0", "0">>)
          /\ self_command_interval = CommandIntervalMs)
    /\ [][pc # "idle" => command' = command]_vars

C17_Witness ==
    /\ Ended
    /\ command = <<IntF(3), T2("0", "0"), T2("0", "0")>>
    /\ byte0 = T2("8", "1")
    /\ outcome.kind = "return"
    /\ self_byte0 = StrF(<<"8", "C">>)

Taxonomy ==
    {"LimitOverError", "LimitUnderError", "CommandCancelled", "ParseError",
     "ResponseError", "EncodeError"}

\* C18: a call that has ended has returned a response code or raised one of
\* LimitOverError, LimitUnderError, CommandCancelled, ParseError,
\* ResponseError, EncodeError.
C18_OutcomeInTaxonomy ==
    (pc = "idle" /\ outcome.kind # "none") =>
        \/ outcome.kind = "return"
        \/ outcome.kind = "raise" /\ outcome.exc \in Taxonomy

\* C20: the response code a call classifies comes from bytes the device sent
\* in answer to that call's frame, never from bytes sent for an earlier call.
C20_NoStaleResponse ==
    (Ended /\ Len(response) >= 2) => ~response[2].stale

\* ------------------------------------------------------- _chksum on its own

\* Byte values handed to _chksum: numbers, and the same as two-hex-digit text
\* in either case.
ChksumNumbers == { IntF(0), IntF(1), IntF(15), IntF(16), IntF(128), IntF(255) }
ChksumTexts ==
    { T2("0", "0"), T2("0", "1"), T2("0", "f"), T2("1", "0"), T2("8", "0"), T2("F", "f") }

ChksumInputs ==
    (SeqsUpTo(ChksumNumbers, MaxChksum) \cup SeqsUpTo(ChksumTexts, MaxChksum)) \ {<<>>}

InitChksum ==
    /\ self_byte0 = StrF(<<"8", "C">>)
    /\ self_byte1 = StrF(<<"0", "0">>)
    /\ self_command_interval = CommandIntervalMs
    /\ pc = "idle"
    /\ command = <<>>
    /\ byte0 = None
    /\ byte1 = None
    /\ enccmd = <<>>
    /\ response = <<>>
    /\ dec_response = None
    /\ outcome = NoOutcome
    /\ ops = <<>>
    /\ written = <<>>
    /\ inbuf = <<>>
    /\ owedCur = FALSE
    /\ owedOld = FALSE
    /\ po_pc = "none"
    /\ po_frames = <<>>
    /\ po_outcome = NoOutcome
    /\ chk_command \in ChksumInputs
    /\ chk_result = None

\* _chksum(chk_command) runs, lines 116-143.
ChksumCall ==
    /\ chk_result = None
    /\ chksumParses(chk_command)
    /\ chk_result' = chksum(chk_command)
    /\ UNCHANGED <<self_byte0, self_byte1, self_command_interval, pc, command, byte0, byte1,
                   enccmd, response, dec_response, outcome, ops, written, inbuf, owedCur,
                   owedOld, po_pc, po_frames, po_outcome, chk_command>>

NextChksum == ChksumCall

SpecChksum == InitChksum /\ [][NextChksum]_vars

\* C15: for a non-empty sequence of byte values of one type, _chksum returns
\* their sum modulo 256 in the type of the input: an integer in 0..255 for
\* numbers, two lowercase hexadecimal digits for text.
C15_ChecksumSumMod256 ==
    chk_result # None =>
        LET total == Sum(FieldBytes(chk_command)) % 256
        IN  IF chk_command[1].t = "int"
            THEN chk_result = IntF(total) /\ total \in 0..255
            ELSE chk_result = StrF(TwoHex(total))

C15_Witness ==
    /\ chk_command = <<T2("F", "f"), T2("8", "0"), T2("0", "f")>>
    /\ chk_result = StrF(<<"8", "e">>)

\* ------------------------------------------------------------- power_off

\* _standby_command_on: self._cmd(['01', '02', '01'])
StandbyCommand == <<T2("0", "1"), T2("0", "2"), T2("0", "1")>>
\* power_off, line 293: self._cmd(['00', '02', '00'])
PowerOffCommand == <<T2("0", "0"), T2("0", "2"), T2("0", "0")>>

\* power_off is called and enters _standby_command_on, line 292.
power_off_enter ==
    /\ po_pc \in {"none", "done"}
    /\ Call(StandbyCommand, None, None)
    /\ po_pc' = "standby"
    /\ po_frames' = <<>>
    /\ po_outcome' = NoOutcome

\* The second call made although the first one raised.
power_off_second_anyway ==
    /\ po_pc = "standby"
    /\ outcome.kind # "none"
    /\ Call(PowerOffCommand, None, None)
    /\ po_pc' = "off"
    /\ UNCHANGED <<po_frames, po_outcome>>

\* _standby_command_on has returned: line 293 calls _cmd(['00', '02', '00']).
power_off_second ==
    /\ po_pc = "standby"
    /\ outcome.kind = "return"
    /\ Call(PowerOffCommand, None, None)
    /\ po_pc' = "off"
    /\ UNCHANGED <<po_frames, po_outcome>>

\* _standby_command_on has raised: the error leaves power_off at line 292.
power_off_raise ==
    /\ po_pc = "standby"
    /\ pc = "idle"
    /\ outcome.kind = "raise"
    /\ po_pc' = "done"
    /\ po_outcome' = outcome
    /\ UNCHANGED <<self_byte0, self_byte1, self_command_interval, pc, command, byte0, byte1,
                   enccmd, response, dec_response, outcome, ops, written, inbuf, owedCur,
                   owedOld, po_frames, chk_command, chk_result>>

\* line 293: power_off returns, or raises, what the second _cmd call did.
power_off_return ==
    /\ po_pc = "off"
    /\ pc = "idle"
    /\ outcome.kind # "none"
    /\ po_pc' = "done"
    /\ po_outcome' = outcome
    /\ UNCHANGED <<self_byte0, self_byte1, self_command_interval, pc, command, byte0, byte1,
                   enccmd, response, dec_response, outcome, ops, written, inbuf, owedCur,
                   owedOld, po_frames, chk_command, chk_result>>

NextPowerOff ==
    \/ power_off_enter \/ power_off_second \/ power_off_raise \/ power_off_return
    \/ Build \/ Write \/ Flush \/ Read6 \/ Read3 \/ Parse \/ Reply \/ LateReply

SpecPowerOff == Init /\ [][NextPowerOff]_vars

StandbyFrame == <<140, 0, 1, 2, 1, 144>>
PowerOffFrame == <<140, 0, 0, 2, 0, 142>>

\* C19: in a power_off call the standby-enable frame 8C 00 01 02 01 90 is
\* written first and the power-off frame 8C 00 00 02 00 8E after it, the
\* latter only once the standby-enable call has returned; if that call raises,
\* power_off ends with its error and no power-off frame is written.
C19_StandbyBeforePowerOff ==
    /\ [](po_pc # "none" =>
            /\ po_frames \in {<<>>, <<StandbyFrame>>, <<StandbyFrame, PowerOffFrame>>}
            /\ po_pc = "standby" => Len(po_frames) <= 1
            /\ (po_pc = "done" /\ Len(po_frames) < 2) => po_outcome.kind = "raise")
    /\ [][(po_pc = "standby" /\ pc = "idle" /\ outcome.kind = "raise") =>
             \/ po_pc' = "standby" /\ outcome' = outcome /\ po_frames' = po_frames
             \/ po_pc' = "done" /\ po_outcome' = outcome /\ po_frames' = po_frames]_vars
    /\ [][(po_pc # "off" /\ po_pc' = "off") =>
             po_pc = "standby" /\ outcome.kind = "return" /\ po_frames = <<StandbyFrame>>]_vars

C19_Witness ==
    /\ po_pc = "done"
    /\ po_frames = <<StandbyFrame, PowerOffFrame>>
    /\ po_outcome = Returned(<<"0", "0">>)

C19_WitnessRaised ==
    /\ po_pc = "done"
    /\ po_frames = <<StandbyFrame>>
    /\ po_outcome = Raised("LimitOverError")

====
